---------------------------- MODULE Spec2Model ----------------------------
(***************************************************************************)
(* Model of the batch orchestration engine of universe-bulk-creator:       *)
(* BulkEventCreator, the orchestrator, driving UniverseService and            *)
(* AirtableService.  Every action is the code that runs between two        *)
(* awaits of the JavaScript program: JavaScript runs such a stretch        *)
(* atomically, and the completions of the pending calls of the records of  *)
(* one batch interleave freely.                                            *)
(*                                                                         *)
(* The remote API and the Airtable table are the environment: each call    *)
(* completes with success or with a failure carrying a message.            *)
(***************************************************************************)
EXTENDS Integers, Sequences, FiniteSets, TLC

(***************************************************************************)
(* Bounds of the model.                                                    *)
(***************************************************************************)
MaxRecords == 2        \* records returned by getUnprocessedEvents: 0..MaxRecords
MaxEnvRetries == 2     \* MAX_RETRIES is one of 1..MaxEnvRetries
MaxEnvBatch == 2       \* BATCH_SIZE is one of 1..MaxEnvBatch
MaxLen == 4            \* createBatches alone: input length 0..MaxLen
MaxB == 3              \* createBatches alone: batch size 1..MaxB
MaxTicks == 1          \* the clock: millisecond ticks within one second
MaxSeconds == 1        \* the clock: seconds it runs for
MaxRandomLen == 1      \* characters of the random part of a token: 0..MaxRandomLen
MaxBatches == 3        \* the batches the array of createBatches can hold before the heap is used up

(***************************************************************************)
(* Program constants.                                                      *)
(***************************************************************************)
DefaultBatchSize == 5
DefaultDelayBetweenBatches == 2000
DefaultMaxRetries == 3
BackoffUnit == 1000
ErrorMessageLimit == 1000

Recs == 1..MaxRecords

Min(a, b) == IF a < b THEN a ELSE b

Last(q) == q[Len(q)]

(***************************************************************************)
(* An environment variable is absent, <<>>, or holds an integer, <<n>>.    *)
(* parseInt(process.env.X) || d : parseInt of an absent variable is NaN,   *)
(* and NaN and 0 are both falsy, so both give the default d.               *)
(***************************************************************************)
Unset == <<>>

ParseIntOr(v, d) == IF v = Unset THEN d ELSE IF v[1] = 0 THEN d ELSE v[1]

(***************************************************************************)
(* Messages of the failures.  A message is its text (abstracted to an id)  *)
(* and its length in characters; the length is what substring(0, 1000)     *)
(* acts on.                                                                *)
(***************************************************************************)
NoMessage == [id |-> "", len |-> 0]
CreateErrors == {[id |-> "create-short", len |-> 40], [id |-> "create-long", len |-> 1200]}
PublishError == [id |-> "publish", len |-> 30]
AirtableError == [id |-> "airtable", len |-> 30]
LogError == [id |-> "log", len |-> 20]

\* errorMessage.substring(0, 1000)
Substring1000(m) == [id |-> m.id, len |-> Min(m.len, ErrorMessageLimit)]

\* `Batch processing failed: ${error.message}` : a prefix of 25 characters
BatchFailedMessage(m) == [id |-> "Batch processing failed: " \o m.id, len |-> 25 + m.len]

(***************************************************************************)
(* Remote resources and table rows.                                        *)
(***************************************************************************)
NoToken == [op |-> "", rec |-> 0, call |-> 0]
NoUrl == [base |-> "", slug |-> [rec |-> 0, call |-> 0]]
NoId == [rec |-> 0, call |-> 0]
NoEvent == [id |-> NoId, slug |-> NoId, state |-> "", clientMutationId |-> NoToken]

\* getEventUrl(eventSlug)
getEventUrl(eventSlug) == [base |-> "https://www.universe.com/", slug |-> eventSlug]

BlankRow == [status |-> "Pending", universeEventId |-> [rec |-> 0, call |-> 0], universeUrl |-> NoUrl,
             errorMessage |-> NoMessage, clientMutationId |-> NoToken]

(***************************************************************************)
(* Text.  A JavaScript string is the sequence of its characters, each a    *)
(* one-character string, so that concatenation, trimming, case folding and *)
(* matching are computed character by character.                           *)
(***************************************************************************)
Digit == <<"0", "1", "2", "3", "4", "5", "6", "7", "8", "9">>

\* `${n}` for an integer n >= 0: its decimal digits
RECURSIVE Decimal(_)
Decimal(n) == IF n < 10 THEN <<Digit[n + 1]>>
              ELSE Decimal(n \div 10) \o <<Digit[(n % 10) + 1]>>

EventCreateOp == <<"e", "v", "e", "n", "t", "-", "c", "r", "e", "a", "t", "e">>
EventPublishOp == <<"e", "v", "e", "n", "t", "-", "p", "u", "b", "l", "i", "s", "h">>

\* record.id of the r-th row of the table: Airtable names every row differently
RecordId(r) == <<"r", "e", "c">> \o Decimal(r)

\* event.id of the resource the k-th create call of record r made
EventId(id) == <<"e">> \o Decimal(id.rec) \o <<"f">> \o Decimal(id.call)

\* a token without the identifier
generateClientMutationIdNoIdentifier(operation, identifier, timestamp, random) ==
    operation \o <<"-">> \o Decimal(timestamp) \o <<"-">> \o random

(***************************************************************************)
(* generateClientMutationId(operation, identifier), with the values        *)
(* Date.now() and Math.random().toString(36).substring(2, 8) returned:     *)
(*   id = identifier ? `-${identifier}` : ''                               *)
(*   `${operation}-${timestamp}-${random}${id}`                            *)
(***************************************************************************)
generateClientMutationId(operation, identifier, timestamp, random) ==
    operation \o <<"-">> \o Decimal(timestamp) \o <<"-">> \o random
        \o (IF identifier # <<>> THEN <<"-">> \o identifier ELSE <<>>)

(***************************************************************************)
(* A field of a record is absent, <<>>, or holds a value, <<v>>: a text    *)
(* (the sequence of its characters) or a number.  Airtable leaves an empty *)
(* cell out of record.fields.                                              *)
(***************************************************************************)
IsDigit(c) == \E d \in 1..10 : Digit[d] = c

DigitValue(c) == CHOOSE d \in 0..9 : Digit[d + 1] = c

\* Number(s) for a text of digits
RECURSIVE ToNumber(_)
ToNumber(s) == IF s = <<>> THEN 0
               ELSE 10 * ToNumber(SubSeq(s, 1, Len(s) - 1)) + DigitValue(s[Len(s)])

IsSpace(c) == c \in {" ", "\t", "\n"}

RECURSIVE TrimStart(_)
TrimStart(s) == IF s # <<>> /\ IsSpace(Head(s)) THEN TrimStart(Tail(s)) ELSE s

RECURSIVE TrimEnd(_)
TrimEnd(s) == IF s # <<>> /\ IsSpace(s[Len(s)]) THEN TrimEnd(SubSeq(s, 1, Len(s) - 1)) ELSE s

\* s.trim()
Trim(s) == TrimEnd(TrimStart(s))

\* s.split(c) for a one-character separator c
RECURSIVE SplitFrom(_, _, _)
SplitFrom(s, c, piece) ==
    IF s = <<>> THEN <<piece>>
    ELSE IF Head(s) = c THEN <<piece>> \o SplitFrom(Tail(s), c, <<>>)
    ELSE SplitFrom(Tail(s), c, Append(piece, Head(s)))

Split(s, c) == SplitFrom(s, c, <<>>)

\* the truth value JavaScript gives a field: undefined, '' and 0 are falsy
TruthyText(f) == f # Unset /\ f[1] # <<>>
TruthyNumber(f) == f # Unset /\ f[1] # 0

\* !field?.trim()
BlankAfterTrim(f) == f = Unset \/ Trim(f[1]) = <<>>

(***************************************************************************)
(* new Date(text) for a date cell: the ISO form YYYY-MM-DD is midnight of  *)
(* that day; a text that is no date gives Invalid Date, whose time value   *)
(* is NaN.  A time value is <<minutes since 1970-01-01>>, NaN is <<>>:     *)
(* no comparison with NaN is true.  The process runs in UTC, where         *)
(* setHours sets the hour of the same day.                                 *)
(***************************************************************************)
NaN == <<>>

MinutesPerHour == 60
MinutesPerDay == 24 * MinutesPerHour

\* days from 1970-01-01 to the day d of month m of year y; a day past the end
\* of the month runs on into the next
DaysFromCivil(y, m, d) ==
    LET yy == IF m <= 2 THEN y - 1 ELSE y
        era == yy \div 400
        yoe == yy - era * 400
        mp == IF m > 2 THEN m - 3 ELSE m + 9
        doy == (153 * mp + 2) \div 5 + d - 1
        doe == yoe * 365 + yoe \div 4 - yoe \div 100 + doy
    IN era * 146097 + doe - 719468

IsIsoDate(s) ==
    /\ Len(s) = 10
    /\ s[5] = "-" /\ s[8] = "-"
    /\ \A k \in {1, 2, 3, 4, 6, 7, 9, 10} : IsDigit(s[k])
    /\ ToNumber(SubSeq(s, 6, 7)) \in 1..12
    /\ ToNumber(SubSeq(s, 9, 10)) \in 1..31

DateParse(s) ==
    IF IsIsoDate(s)
    THEN <<MinutesPerDay * DaysFromCivil(ToNumber(SubSeq(s, 1, 4)), ToNumber(SubSeq(s, 6, 7)),
                                         ToNumber(SubSeq(s, 9, 10)))>>
    ELSE NaN

\* date.setHours(h, m, 0, 0) on a midnight
SetHours(t, h, m) == IF t = NaN THEN NaN ELSE <<t[1] + MinutesPerHour * h + m>>

TimeGE(a, b) == a # NaN /\ b # NaN /\ a[1] >= b[1]
TimeLT(a, b) == a # NaN /\ b # NaN /\ a[1] < b[1]

\* a - b in minutes; NaN when either is
TimeDiff(a, b) == IF a = NaN \/ b = NaN THEN NaN ELSE <<a[1] - b[1]>>

\* /^([0-1]?[0-9]|2[0-3]):[0-5][0-9]$/.test(s)
TimeRegexTest(s) ==
    \/ /\ Len(s) = 4
       /\ IsDigit(s[1])
       /\ s[2] = ":"
       /\ s[3] \in {"0", "1", "2", "3", "4", "5"} /\ IsDigit(s[4])
    \/ /\ Len(s) = 5
       /\ \/ s[1] \in {"0", "1"} /\ IsDigit(s[2])
          \/ s[1] = "2" /\ s[2] \in {"0", "1", "2", "3"}
       /\ s[3] = ":"
       /\ s[4] \in {"0", "1", "2", "3", "4", "5"} /\ IsDigit(s[5])

(***************************************************************************)
(* Texts of the cells and of the program.                                   *)
(***************************************************************************)
Some(v) == <<v>>

Text ==
    [Empty |-> <<>>,
     Blank |-> <<" ", " ">>,
     Hall |-> <<"H", "a", "l", "l">>,
     HallPadded |-> <<" ", "H", "a", "l", "l", " ">>,
     Jul31 |-> <<"2", "0", "2", "5", "-", "0", "7", "-", "3", "1">>,
     Aug01 |-> <<"2", "0", "2", "5", "-", "0", "8", "-", "0", "1">>,
     Aug09 |-> <<"2", "0", "2", "5", "-", "0", "8", "-", "0", "9">>,
     Jan01 |-> <<"2", "0", "2", "5", "-", "0", "1", "-", "0", "1">>,
     Aug05 |-> <<"2", "0", "2", "5", "-", "0", "8", "-", "0", "5">>,
     T0900 |-> <<"0", "9", ":", "0", "0">>,
     T900 |-> <<"9", ":", "0", "0">>,
     T1930 |-> <<"1", "9", ":", "3", "0">>,
     T2359 |-> <<"2", "3", ":", "5", "9">>,
     T2500 |-> <<"2", "5", ":", "0", "0">>,
     T1260 |-> <<"1", "2", ":", "6", "0">>,
     T230PM |-> <<"2", ":", "3", "0", " ", "P", "M">>,
     PUBLIC |-> <<"P", "U", "B", "L", "I", "C">>,
     PRIVATE |-> <<"P", "R", "I", "V", "A", "T", "E">>,
     UNLISTED |-> <<"U", "N", "L", "I", "S", "T", "E", "D">>,
     public |-> <<"p", "u", "b", "l", "i", "c">>,
     private |-> <<"p", "r", "i", "v", "a", "t", "e">>,
     unlisted |-> <<"u", "n", "l", "i", "s", "t", "e", "d">>,
     PrivateMixed |-> <<"P", "r", "i", "v", "a", "t", "e">>,
     UnlistedMixed |-> <<"U", "n", "l", "i", "s", "t", "e", "d">>,
     friends |-> <<"f", "r", "i", "e", "n", "d", "s">>,
     CodesAB |-> <<"a", ",", "b">>,
     CodesGap |-> <<"a", ",", " ", ",", "b">>,
     CodesTrailing |-> <<"a", ",">>,
     CA |-> <<"C", "A">>,
     CAN |-> <<"C", "A", "N">>,
     FULL |-> <<"F", "U", "L", "L">>,
     fullLower |-> <<"f", "u", "l", "l">>,
     SHORT |-> <<"S", "H", "O", "R", "T">>,
     HIDDEN |-> <<"H", "I", "D", "D", "E", "N">>,
     TwoParagraphs |-> <<"a", "\n", "b", "\n", "\n", " ", "c">>]

LongDurationHours == 168

DateDisplayOptions == {Text.FULL, Text.SHORT, Text.HIDDEN}

PrivacyValues == {Text.PUBLIC, Text.PRIVATE, Text.UNLISTED,
                  Text.public, Text.private, Text.unlisted}

\* errors.push(message) when the condition holds
PushIf(cond, message) == IF cond THEN <<message>> ELSE <<>>

\* codes.some(code => code.length === 0) for codes = text.split(',').map(c => c.trim())
SomeCodeEmpty(text) == \E k \in 1..Len(Split(text, ",")) : Trim(Split(text, ",")[k]) = <<>>

(***************************************************************************)
(* validateEvent(eventData), with the day `today` the clock gives.         *)
(***************************************************************************)
validateEvent(eventData, today) ==
    LET allFour == /\ TruthyText(eventData.startDate) /\ TruthyText(eventData.startTime)
                   /\ TruthyText(eventData.endDate) /\ TruthyText(eventData.endTime)
        startTimeOk == TimeRegexTest(eventData.startTime[1])
        endTimeOk == TimeRegexTest(eventData.endTime[1])
        startHM == Split(eventData.startTime[1], ":")
        endHM == Split(eventData.endTime[1], ":")
        startDateTime == SetHours(DateParse(eventData.startDate[1]),
                                  ToNumber(startHM[1]), ToNumber(startHM[2]))
        endDateTime == SetHours(DateParse(eventData.endDate[1]),
                                ToNumber(endHM[1]), ToNumber(endHM[2]))
        duration == TimeDiff(endDateTime, startDateTime)
        errors ==
            PushIf(BlankAfterTrim(eventData.title), "Title is required")
            \o PushIf(~TruthyText(eventData.startDate), "Start date is required")
            \o PushIf(~TruthyText(eventData.startTime), "Start time is required")
            \o PushIf(~TruthyText(eventData.endDate), "End date is required")
            \o PushIf(~TruthyText(eventData.endTime), "End time is required")
            \o PushIf(BlankAfterTrim(eventData.address), "Address is required")
            \o PushIf(BlankAfterTrim(eventData.venueName), "Venue name is required")
            \o PushIf(BlankAfterTrim(eventData.cityName), "City name is required")
            \o (IF allFour
                THEN PushIf(~startTimeOk, "Start time must be in HH:MM format (e.g., 19:30)")
                     \o PushIf(~endTimeOk, "End time must be in HH:MM format (e.g., 22:00)")
                     \o (IF startTimeOk /\ endTimeOk
                         THEN PushIf(TimeGE(startDateTime, endDateTime),
                                     "Event end must be after event start (supports multi-day events)")
                         ELSE <<>>)
                ELSE <<>>)
            \o PushIf(TruthyNumber(eventData.ratePrice) /\ eventData.ratePrice[1] < 0,
                      "Rate price cannot be negative")
            \o PushIf(TruthyNumber(eventData.capacity) /\ eventData.capacity[1] < 1,
                      "Capacity must be at least 1")
            \o PushIf(TruthyText(eventData.countryCode) /\ Len(eventData.countryCode[1]) # 2,
                      "Country code must be 2 characters (e.g., CA, US)")
            \o PushIf(TruthyText(eventData.dateDisplayOption)
                          /\ eventData.dateDisplayOption[1] \notin DateDisplayOptions,
                      "Date display option must be FULL, SHORT, or HIDDEN")
            \o PushIf(TruthyText(eventData.privacy) /\ eventData.privacy[1] \notin PrivacyValues,
                      "Privacy must be PUBLIC, PRIVATE, or UNLISTED (case insensitive)")
        warnings ==
            (IF allFour
             THEN (IF startTimeOk /\ endTimeOk
                   THEN PushIf(duration # NaN /\ duration[1] > LongDurationHours * MinutesPerHour,
                               "Event duration is longer than 7 days")
                   ELSE <<>>)
                  \o PushIf(TimeLT(DateParse(eventData.startDate[1]), today),
                            "Event start date is in the past")
             ELSE <<>>)
            \o PushIf(TruthyText(eventData.tiktokPixelCodes)
                          /\ SomeCodeEmpty(eventData.tiktokPixelCodes[1]),
                      "TikTok pixel codes should not contain empty values")
            \o PushIf(TruthyText(eventData.facebookPixelCodes)
                          /\ SomeCodeEmpty(eventData.facebookPixelCodes[1]),
                      "Facebook pixel codes should not contain empty values")
    IN [isValid |-> Len(errors) = 0, errors |-> errors, warnings |-> warnings]

(***************************************************************************)
(* transformToEventCreateInput(airtableData), with the values Date.now()   *)
(* and Math.random() give its token.  A Number cell holds a whole number   *)
(* (a coordinate is held in units of 1e-7 degree); parseFloat and parseInt *)
(* turn it into text and read the text back.  A key the code does not set  *)
(* is not in the domain of the result.                                     *)
(***************************************************************************)
UpperCase == <<"A", "B", "C", "D", "E", "F", "G", "H", "I", "J", "K", "L", "M", "N", "O", "P", "Q", "R", "S", "T", "U", "V", "W", "X", "Y", "Z">>
LowerCase == <<"a", "b", "c", "d", "e", "f", "g", "h", "i", "j", "k", "l", "m", "n", "o", "p", "q", "r", "s", "t", "u", "v", "w", "x", "y", "z">>

LowerChar(c) == IF \E k \in 1..26 : UpperCase[k] = c
                THEN LowerCase[CHOOSE k \in 1..26 : UpperCase[k] = c]
                ELSE c

\* s.toLowerCase()
toLowerCase(s) == [k \in 1..Len(s) |-> LowerChar(s[k])]

\* s.padStart(n, c)
PadStart(s, n, c) == IF Len(s) >= n THEN s ELSE [k \in 1..(n - Len(s)) |-> c] \o s

\* the text of a whole number n, read back as a number: String(n) is a minus
\* sign, if any, and the decimal digits; reading them back gives n
parseFloat(n) == IF n < 0 THEN 0 - ToNumber(Decimal(0 - n)) ELSE ToNumber(Decimal(n))
parseInt(n) == IF n < 0 THEN 0 - ToNumber(Decimal(0 - n)) ELSE ToNumber(Decimal(n))

DefaultLatitude == 436532260
DefaultLongitude == -793831843
DefaultCategoryId == <<"5", "2", "c", "c", "8", "f", "6", "1", "5", "4", "c", "5", "3", "1", "7", "9", "4", "3", "0", "0", "0", "0", "0", "3">>

Null == <<>>

\* description.split('\n\n')
RECURSIVE SplitParagraphs(_, _)
SplitParagraphs(s, piece) ==
    IF s = <<>> THEN <<piece>>
    ELSE IF Len(s) >= 2 /\ s[1] = "\n" /\ s[2] = "\n"
         THEN <<piece>> \o SplitParagraphs(SubSeq(s, 3, Len(s)), <<>>)
         ELSE SplitParagraphs(Tail(s), Append(piece, Head(s)))

\* paragraph.replace(/\n/g, '<br>')
RECURSIVE ReplaceNewlines(_)
ReplaceNewlines(s) ==
    IF s = <<>> THEN <<>>
    ELSE (IF Head(s) = "\n" THEN <<"<", "b", "r", ">">> ELSE <<Head(s)>>) \o ReplaceNewlines(Tail(s))

\* .map(trim).filter(length > 0).map(p => `<p>${...}</p>`).join('')
RECURSIVE FormatParagraphs(_)
FormatParagraphs(ps) ==
    IF ps = <<>> THEN <<>>
    ELSE (IF Trim(Head(ps)) # <<>>
          THEN <<"<", "p", ">">> \o ReplaceNewlines(Trim(Head(ps))) \o <<"<", "/", "p", ">">>
          ELSE <<>>)
         \o FormatParagraphs(Tail(ps))

\* formatDescription(description)
formatDescription(description) ==
    IF ~TruthyText(description) THEN Text.Empty
    ELSE FormatParagraphs(SplitParagraphs(description[1], <<>>))

\* combineDateAndTime(date, time) for a date held as text
combineDateAndTime(date, time) ==
    Split(date, "T")[1] \o <<"T">> \o PadStart(time, 5, "0") \o <<":", "0", "0">>

\* text.split(',').map(c => c.trim())
SplitCodes(text) == [k \in 1..Len(Split(text, ",")) |-> Trim(Split(text, ",")[k])]

\* a privacy mapping that leaves private as it is
mapPrivacyKeepPrivate(privacy) == toLowerCase(privacy)

\* privacyValue = privacy.toLowerCase(); if (privacyValue === 'private') privacyValue = 'unlisted'
mapPrivacy(privacy) == IF toLowerCase(privacy) = Text.private THEN Text.unlisted ELSE toLowerCase(privacy)

\* the key is set when the condition holds
KeyIf(cond, key, value) == IF cond THEN key :> value ELSE <<>>

IsTrue(f) == f = Some(TRUE)

transformToEventCreateInput(airtableData, timestamp, random) ==
    [clientMutationId |->
         generateClientMutationId(EventCreateOp, airtableData.airtableId, timestamp, random),
     publish |-> IsTrue(airtableData.publish),
     event |->
         [title |-> airtableData.title,
          descriptionHtml |-> formatDescription(airtableData.description),
          address |-> airtableData.address,
          latitude |-> IF TruthyNumber(airtableData.latitude)
                       THEN parseFloat(airtableData.latitude[1]) ELSE DefaultLatitude,
          longitude |-> IF TruthyNumber(airtableData.longitude)
                        THEN parseFloat(airtableData.longitude[1]) ELSE DefaultLongitude,
          category |-> [id |-> IF TruthyText(airtableData.categoryId)
                               THEN airtableData.categoryId[1] ELSE DefaultCategoryId],
          timeSlots |->
              IF /\ TruthyText(airtableData.startDate) /\ TruthyText(airtableData.startTime)
                 /\ TruthyText(airtableData.endDate) /\ TruthyText(airtableData.endTime)
              THEN <<[startAt |-> combineDateAndTime(airtableData.startDate[1],
                                                     airtableData.startTime[1]),
                      endAt |-> combineDateAndTime(airtableData.endDate[1],
                                                   airtableData.endTime[1])]>>
              ELSE <<>>,
          rates |->
              IF TruthyText(airtableData.rateName) /\ TruthyNumber(airtableData.ratePrice)
              THEN <<[attributes |->
                         [name |-> airtableData.rateName[1],
                          price |-> parseFloat(airtableData.ratePrice[1]),
                          capacity |-> IF TruthyNumber(airtableData.rateCapacity)
                                       THEN Some(parseInt(airtableData.rateCapacity[1]))
                                       ELSE Null,
                          description |-> IF TruthyText(airtableData.rateDescription)
                                          THEN airtableData.rateDescription[1] ELSE Text.Empty,
                          state |-> "ACTIVE"]]>>
              ELSE <<>>]
         @@ KeyIf(TruthyText(airtableData.privacy), "privacy", mapPrivacy(airtableData.privacy[1]))
         @@ KeyIf(IsTrue(airtableData.virtual), "virtual", TRUE)
         @@ KeyIf(TruthyText(airtableData.venueName), "venueName", airtableData.venueName[1])
         @@ KeyIf(TruthyText(airtableData.region), "region", airtableData.region[1])
         @@ KeyIf(IsTrue(airtableData.allowWaitlist), "allowWaitlist", TRUE)
         @@ KeyIf(IsTrue(airtableData.socialButtons), "socialButtons", TRUE)
         @@ KeyIf(IsTrue(airtableData.hiddenDate), "hiddenDate", TRUE)
         @@ KeyIf(IsTrue(airtableData.timedEntry), "timedEntry", TRUE)
         @@ KeyIf(TruthyNumber(airtableData.maxQuantity), "maxQuantity",
                  parseInt(airtableData.maxQuantity[1]))
         @@ KeyIf(TruthyText(airtableData.transactionCurrency), "transactionCurrency",
                  airtableData.transactionCurrency[1])
         @@ KeyIf(TruthyText(airtableData.availableCountries), "availableCountries",
                  SplitCodes(airtableData.availableCountries[1]))
         @@ KeyIf(TruthyText(airtableData.tiktokPixelCodes), "tiktokPixelCodes",
                  SplitCodes(airtableData.tiktokPixelCodes[1]))
         @@ KeyIf(TruthyText(airtableData.facebookPixelCodes), "facebookPixelCodes",
                  SplitCodes(airtableData.facebookPixelCodes[1]))
         @@ KeyIf(TruthyText(airtableData.googleAnalytics4Id), "googleAnalytics4Id",
                  airtableData.googleAnalytics4Id[1])]

(***************************************************************************)
(* createBatches: for (i = 0; i < events.length; i += batchSize)           *)
(*                    batches.push(events.slice(i, i + batchSize))         *)
(***************************************************************************)
\* a slice that takes one element too many
SliceInclusive(s, a, b) == SubSeq(s, a + 1, Min(b + 1, Len(s)))

\* events.slice(a, b): a negative index counts from the end, and an index
\* outside the array is the nearer end of it
Slice(s, a, b) ==
    LET from == IF a < 0 THEN (IF Len(s) + a < 0 THEN 0 ELSE Len(s) + a) ELSE Min(a, Len(s))
        to == IF b < 0 THEN (IF Len(s) + b < 0 THEN 0 ELSE Len(s) + b) ELSE Min(b, Len(s))
    IN IF from < to THEN SubSeq(s, from + 1, to) ELSE <<>>

RECURSIVE createBatchesFrom(_, _, _)
createBatchesFrom(evs, size, i) ==
    IF i < Len(evs)
    THEN <<Slice(evs, i, i + size)>> \o createBatchesFrom(evs, size, i + size)
    ELSE <<>>

createBatches(evs, size) == createBatchesFrom(evs, size, 0)


(***************************************************************************)
(* The decisions of the orchestrator, one operator per condition.          *)
(***************************************************************************)
\* processEvent: if (event.publish === true && universeEvent.state !== 'POSTED')
ShouldPublish(publishFlag, state) == publishFlag /\ state # "POSTED"

\* a retry test that allows one attempt too many
ShouldRetryInclusive(count, limit) == count <= limit

\* processEvent, catch: if (retryCount < this.maxRetries)
ShouldRetry(count, limit) == count < limit

\* a backoff that counts the attempts from zero
BackoffDelayFromZero(count) == BackoffUnit * count

\* processEvent, catch: this.delay(1000 * (retryCount + 1))
BackoffDelay(count) == BackoffUnit * (count + 1)

\* processBatches: if (i < batches.length - 1)
DelayFollows(idx, nBatches) == idx < nBatches - 1

\* a markAsCreated that leaves the URL out
markAsCreatedRowNoUrl(row, universeEventId, universeUrl, clientMutationId) ==
    [row EXCEPT !.status = "Created",
                !.universeEventId = universeEventId,
                !.clientMutationId = IF clientMutationId # NoToken THEN clientMutationId ELSE @]

\* markAsCreated: the fields table.update receives, merged into the row
markAsCreatedRow(row, universeEventId, universeUrl, clientMutationId) ==
    [row EXCEPT !.status = "Created",
                !.universeEventId = universeEventId,
                !.universeUrl = universeUrl,
                !.clientMutationId = IF clientMutationId # NoToken THEN clientMutationId ELSE @]

\* a markAsError that leaves the status out
markAsErrorRowNoStatus(row, errorMessage) ==
    [row EXCEPT !.errorMessage = Substring1000(errorMessage)]

\* markAsError: the fields table.update receives, merged into the row
markAsErrorRow(row, errorMessage) ==
    [row EXCEPT !.status = "Error", !.errorMessage = Substring1000(errorMessage)]

\* a validateBatch that lets every record through
ValidOfAll(evs, valid) == evs

\* validateBatch: results.filter(r => r.validation.isValid) and its complement
ValidOf(evs, valid) == SelectSeq(evs, LAMBDA r : valid[r])
InvalidOf(evs, valid) == SelectSeq(evs, LAMBDA r : ~valid[r])

Range(s) == {s[k] : k \in 1..Len(s)}

(***************************************************************************)
(* State.                                                                  *)
(***************************************************************************)
VARIABLES
    batchSize, maxRetries, delayBetweenBatches,   \* BulkEventCreator's configuration
    events, isValid, publish,                     \* the fetched records, validateEvent's verdict, the publish field
    runPc,            \* where run / processBatches stands
    queue,            \* records still to be marked by the loop of markAsError calls under way
    batches, i,       \* processBatches: the partition and the loop index (0-based)
    successCount, errorCount,
    batchError,       \* the error caught by processBatches' catch
    pc, retryCount, universeEvent, error,         \* processEvent of each record
    table,            \* the Airtable rows
    \* history of the run, read by the properties only
    createCalls, createFails, createOks, markCreatedFails,
    publishCalls,
    publishFailed,    \* per record, whether the publish call of the current attempt failed
    markErrorLog,     \* per record, the markAsError calls made: <<caller, message>>
    writes,           \* per record, the statuses written to its row, in order
    backoffs,         \* per record, the waits of this.delay in processEvent
    delays,           \* the inter-batch waits: <<batch index, ms>>
    counted,          \* per record, how often it was added to successCount / errorCount
    failedBatches,    \* indexes of the batches that took processBatches' catch
    fnArg, fnRes,     \* argument and result of a function applied on its own
    now,              \* Date.now(), in milliseconds
    issued,           \* the tokens generateClientMutationId has returned, with the call each was for
    accessToken, tokenExpiration, client,         \* UniverseService's cached credential
    auth,             \* per record, the getAccessToken call of its createEvent / publishEvent under way,
                      \* with what its test of the cache found
    credWriters       \* history: the records whose processing assigned the cached credential

configVars == <<batchSize, maxRetries, delayBetweenBatches>>
inputVars == <<events, isValid, publish>>
runVars == <<runPc, queue, batches, i, successCount, errorCount, batchError>>
recVars == <<pc, retryCount, universeEvent, error>>
worldVars == <<table>>
histVars == <<createCalls, createFails, createOks, publishCalls,
              publishFailed, markCreatedFails, markErrorLog, writes, backoffs, delays,
              counted, failedBatches>>
fnVars == <<fnArg, fnRes>>
credVars == <<accessToken, tokenExpiration, client, auth, credWriters>>
tokenVars == <<now, issued, credVars>>
vars == <<configVars, inputVars, runVars, recVars, worldVars, histVars, fnVars, tokenVars>>

\* no getAccessToken call made yet for the record
NoAuth == [op |-> "", call |-> 0, state |-> "none", token |-> Null,
           expiration |-> Null, at |-> 0, requested |-> FALSE]

EnvValues(max) == {<<n>> : n \in 1..max}
EnvDelayValues == {Unset}

NotApplied == [done |-> FALSE, value |-> <<>>]

\* no record fetched, no call made
NothingDone ==
    /\ isValid = [r \in Recs |-> FALSE]
    /\ publish = [r \in Recs |-> FALSE]
    /\ queue = <<>>
    /\ batches = <<>>
    /\ i = 0
    /\ successCount = 0
    /\ errorCount = 0
    /\ batchError = NoMessage
    /\ pc = [r \in Recs |-> "idle"]
    /\ retryCount = [r \in Recs |-> 0]
    /\ universeEvent = [r \in Recs |-> NoEvent]
    /\ error = [r \in Recs |-> NoMessage]
    /\ table = [r \in Recs |-> BlankRow]
    /\ createCalls = [r \in Recs |-> 0]
    /\ createFails = [r \in Recs |-> 0]
    /\ createOks = [r \in Recs |-> 0]
    /\ publishCalls = [r \in Recs |-> 0]
    /\ publishFailed = [r \in Recs |-> FALSE]
    /\ markCreatedFails = [r \in Recs |-> 0]
    /\ markErrorLog = [r \in Recs |-> <<>>]
    /\ writes = [r \in Recs |-> <<>>]
    /\ backoffs = [r \in Recs |-> <<>>]
    /\ delays = <<>>
    /\ counted = [r \in Recs |-> [success |-> 0, error |-> 0]]
    /\ failedBatches = {}
    /\ now = 0
    /\ issued = {}
    /\ accessToken = Null           \* constructor of UniverseService
    /\ tokenExpiration = Null
    /\ client = Null
    /\ auth = [r \in Recs |-> NoAuth]
    /\ credWriters = {}

(***************************************************************************)
(* constructor, then run() up to its first await: getUnprocessedEvents is  *)
(* pending.                                                                *)
(***************************************************************************)
Init ==
    /\ \E e \in EnvValues(MaxEnvBatch) : batchSize = ParseIntOr(e, DefaultBatchSize)
    /\ \E e \in EnvDelayValues : delayBetweenBatches = ParseIntOr(e, DefaultDelayBetweenBatches)
    /\ \E e \in EnvValues(MaxEnvRetries) : maxRetries = ParseIntOr(e, DefaultMaxRetries)
    /\ events = <<>>
    /\ runPc = "fetch"
    /\ NothingDone
    /\ fnArg = <<>>
    /\ fnRes = NotApplied



ValidationError == [id |-> "validation", len |-> 60]

\* record r's markAsError is called by `who` with message m
LogMarkError(log, r, who, m) == [log EXCEPT ![r] = Append(@, <<who, m>>)]

\* a launch that starts the records of every batch from j on at once
LaunchAll(j, bs) ==
    /\ runPc' = "allSettled"
    /\ i' = j
    /\ pc' = [r \in Recs |-> IF \E k \in (j + 1)..Len(bs) : r \in Range(bs[k])
                              THEN "createEvent" ELSE pc[r]]
    /\ retryCount' = [r \in Recs |-> IF \E k \in (j + 1)..Len(bs) : r \in Range(bs[k])
                                      THEN 0 ELSE retryCount[r]]
    /\ createCalls' = [r \in Recs |-> IF \E k \in (j + 1)..Len(bs) : r \in Range(bs[k])
                                       THEN createCalls[r] + 1 ELSE createCalls[r]]

(***************************************************************************)
(* processBatch(batch j): events.map(event => this.processEvent(event))    *)
(* runs every processEvent up to its first await, the createEvent call.    *)
(***************************************************************************)
Launch(j, bs) ==
    /\ runPc' = "allSettled"
    /\ i' = j
    /\ pc' = [r \in Recs |-> IF r \in Range(bs[j + 1]) THEN "createEvent" ELSE pc[r]]
    /\ retryCount' = [r \in Recs |-> IF r \in Range(bs[j + 1]) THEN 0 ELSE retryCount[r]]
    /\ createCalls' = [r \in Recs |-> IF r \in Range(bs[j + 1]) THEN createCalls[r] + 1
                                                              ELSE createCalls[r]]

\* the loop of processBatches ends: the summary is printed and run returns
Finish(j) ==
    /\ runPc' = "done"
    /\ i' = j
    /\ UNCHANGED <<pc, retryCount, createCalls>>

\* for (...; i < batches.length; i++), entered with i = j
Continue(j, bs) == IF j < Len(bs) THEN Launch(j, bs) ELSE Finish(j)

\* run, after the invalid records are marked: validEvents, then processBatches
ProcessValid(evs, valid) ==
    IF Len(ValidOf(evs, valid)) = 0
    THEN /\ Finish(0)
         /\ batches' = <<>>
    ELSE /\ batches' = createBatches(ValidOf(evs, valid), batchSize)
         /\ Continue(0, batches')

(***************************************************************************)
(* run: getUnprocessedEvents resolves with n records; validateBatch        *)
(* splits them; the first invalid record's markAsError is called, or       *)
(* processBatches starts.                                                  *)
(***************************************************************************)
FetchOk(n, valid, pub) ==
    /\ runPc = "fetch"
    /\ events' = [k \in 1..n |-> k]
    /\ isValid' = valid
    /\ publish' = pub
    /\ IF n = 0
       THEN /\ Finish(0)
            /\ UNCHANGED <<queue, batches, markErrorLog>>
       ELSE IF Len(InvalidOf(events', valid)) > 0
            THEN /\ runPc' = "markInvalid"
                 /\ queue' = InvalidOf(events', valid)
                 /\ markErrorLog' = LogMarkError(markErrorLog, Head(queue'), "run", ValidationError)
                 /\ UNCHANGED <<batches, i, pc, retryCount, createCalls>>
            ELSE /\ ProcessValid(events', valid)
                 /\ UNCHANGED <<queue, markErrorLog>>
    /\ UNCHANGED <<configVars, successCount, errorCount, batchError, universeEvent, error,
                   worldVars, createFails, createOks, publishCalls,
                   publishFailed, markCreatedFails, writes, backoffs, delays, counted,
                   failedBatches, fnVars, tokenVars>>

\* run: getUnprocessedEvents rejects; run's catch logs and run returns
FetchFail ==
    /\ runPc = "fetch"
    /\ runPc' = "aborted"
    /\ UNCHANGED <<configVars, inputVars, queue, batches, i, successCount, errorCount,
                   batchError, recVars, worldVars, histVars, fnVars, tokenVars>>

(***************************************************************************)
(* run: the markAsError of an invalid record completes (a failed write is  *)
(* caught and logged inside markAsError); the next one is called, or       *)
(* processBatches starts.                                                  *)
(***************************************************************************)
MarkInvalidDone(ok) ==
    /\ runPc = "markInvalid"
    /\ table' = IF ok THEN [table EXCEPT ![Head(queue)] = markAsErrorRow(@, ValidationError)]
                      ELSE table
    /\ writes' = IF ok THEN [writes EXCEPT ![Head(queue)] = Append(@, "Error")] ELSE writes
    /\ queue' = Tail(queue)
    /\ IF Len(queue') > 0
       THEN /\ markErrorLog' = LogMarkError(markErrorLog, Head(queue'), "run", ValidationError)
            /\ UNCHANGED <<runPc, batches, i, pc, retryCount, createCalls>>
       ELSE /\ ProcessValid(events, isValid)
            /\ UNCHANGED markErrorLog
    /\ UNCHANGED <<configVars, inputVars, successCount, errorCount, batchError,
                   universeEvent, error, createFails, createOks,
                   publishCalls, publishFailed, markCreatedFails,
                   backoffs, delays, counted, failedBatches, fnVars, tokenVars>>


(***************************************************************************)
(* processEvent(event, retryCount), one record.                            *)
(***************************************************************************)
\* the catch of processEvent, entered with an error of message m
Catch(r, m) ==
    /\ error' = [error EXCEPT ![r] = m]
    /\ universeEvent' = [universeEvent EXCEPT ![r] = NoEvent]   \* const of the try block
    /\ IF ShouldRetry(retryCount[r], maxRetries)
       THEN /\ pc' = [pc EXCEPT ![r] = "delay"]
            /\ backoffs' = [backoffs EXCEPT ![r] = Append(@, BackoffDelay(retryCount[r]))]
            /\ UNCHANGED markErrorLog
       ELSE /\ pc' = [pc EXCEPT ![r] = "markAsError"]
            /\ markErrorLog' = LogMarkError(markErrorLog, r, "processEvent", m)
            /\ UNCHANGED backoffs

\* what the create call number k of record r returns: the new resource (the
\* remote side names it; the name here is the call that made it) and the
\* clientMutationId of the request, echoed
RemoteEvent(r, k, st) ==
    [id |-> [rec |-> r, call |-> k], slug |-> [rec |-> r, call |-> k], state |-> st,
     clientMutationId |-> [op |-> "event-create", rec |-> r, call |-> k]]

\* createEvent resolves with a new remote event in state st
CreateEventOk(r, st) ==
    /\ pc[r] = "createEvent"
    /\ universeEvent' = [universeEvent EXCEPT ![r] = RemoteEvent(r, createCalls[r], st)]
    /\ createOks' = [createOks EXCEPT ![r] = @ + 1]
    /\ IF ShouldPublish(publish[r], st)
       THEN /\ pc' = [pc EXCEPT ![r] = "publishEvent"]
            /\ publishCalls' = [publishCalls EXCEPT ![r] = @ + 1]
       ELSE /\ pc' = [pc EXCEPT ![r] = "markAsCreated"]
            /\ UNCHANGED publishCalls
    /\ UNCHANGED <<configVars, inputVars, runVars, retryCount, error, table, createCalls,
                   createFails, publishFailed, markCreatedFails,
                   markErrorLog, writes, backoffs, delays, counted, failedBatches, fnVars, tokenVars>>

\* createEvent rejects with message m
CreateEventFail(r, m) ==
    /\ pc[r] = "createEvent"
    /\ createFails' = [createFails EXCEPT ![r] = @ + 1]
    /\ Catch(r, m)
    /\ UNCHANGED <<configVars, inputVars, runVars, retryCount, worldVars,
                   createCalls, createOks, publishCalls, publishFailed, markCreatedFails,
                   writes, delays, counted, failedBatches, fnVars, tokenVars>>

\* publishEvent resolves
PublishEventOk(r) ==
    /\ pc[r] = "publishEvent"
    /\ pc' = [pc EXCEPT ![r] = "markAsCreated"]
    /\ UNCHANGED <<configVars, inputVars, runVars, retryCount, universeEvent, error,
                   worldVars, createCalls, createFails, createOks, publishCalls,
                   publishFailed, markCreatedFails, markErrorLog, writes, backoffs, delays,
                   counted, failedBatches, fnVars, tokenVars>>

\* a publish failure that reaches the outer catch
PublishRethrows(r) ==
    /\ Catch(r, PublishError)
    /\ UNCHANGED retryCount

\* the inner catch of processEvent: logger.warn, and the try block goes on
PublishCatch(r) ==
    /\ pc' = [pc EXCEPT ![r] = "markAsCreated"]
    /\ UNCHANGED <<retryCount, universeEvent, error, markErrorLog, backoffs>>

\* publishEvent rejects
PublishEventFail(r) ==
    /\ pc[r] = "publishEvent"
    /\ publishFailed' = [publishFailed EXCEPT ![r] = TRUE]
    /\ PublishCatch(r)
    /\ UNCHANGED <<configVars, inputVars, runVars, worldVars, createCalls, createFails,
                   createOks, publishCalls, markCreatedFails, writes, delays, counted,
                   failedBatches, fnVars, tokenVars>>

\* markAsCreated resolves: the row is written and processEvent's promise fulfils
MarkAsCreatedOk(r) ==
    /\ pc[r] = "markAsCreated"
    /\ table' = [table EXCEPT ![r] =
           markAsCreatedRow(@, universeEvent[r].id, getEventUrl(universeEvent[r].slug),
                            universeEvent[r].clientMutationId)]
    /\ writes' = [writes EXCEPT ![r] = Append(@, "Created")]
    /\ pc' = [pc EXCEPT ![r] = "fulfilled"]
    /\ universeEvent' = [universeEvent EXCEPT ![r] = NoEvent]   \* the value returned is not used
    /\ UNCHANGED <<configVars, inputVars, runVars, retryCount, error,
                   createCalls, createFails, createOks, publishCalls, publishFailed, markCreatedFails, markErrorLog, backoffs,
                   delays, counted, failedBatches, fnVars, tokenVars>>

\* markAsCreated rejects (it rethrows the failure of table.update)
MarkAsCreatedFail(r) ==
    /\ pc[r] = "markAsCreated"
    /\ markCreatedFails' = [markCreatedFails EXCEPT ![r] = @ + 1]
    /\ Catch(r, AirtableError)
    /\ UNCHANGED <<configVars, inputVars, runVars, retryCount, worldVars,
                   createCalls, createFails, createOks, publishCalls,
                   publishFailed, writes, delays, counted, failedBatches, fnVars, tokenVars>>

\* the backoff timer fires: return this.processEvent(event, retryCount + 1)
BackoffDone(r) ==
    /\ pc[r] = "delay"
    /\ retryCount' = [retryCount EXCEPT ![r] = @ + 1]
    /\ createCalls' = [createCalls EXCEPT ![r] = @ + 1]
    /\ pc' = [pc EXCEPT ![r] = "createEvent"]
    /\ error' = [error EXCEPT ![r] = NoMessage]   \* the new call has its own catch variable
    /\ publishFailed' = [publishFailed EXCEPT ![r] = FALSE]
    /\ UNCHANGED <<configVars, inputVars, runVars, universeEvent, worldVars,
                   createFails, createOks, publishCalls,
                   markCreatedFails, markErrorLog, writes, backoffs, delays, counted,
                   failedBatches, fnVars, tokenVars>>

\* markAsError completes (a failed write is swallowed); throw error
MarkAsErrorDone(r, ok) ==
    /\ pc[r] = "markAsError"
    /\ table' = IF ok THEN [table EXCEPT ![r] = markAsErrorRow(@, error[r])] ELSE table
    /\ writes' = IF ok THEN [writes EXCEPT ![r] = Append(@, "Error")] ELSE writes
    /\ pc' = [pc EXCEPT ![r] = "rejected"]
    /\ UNCHANGED <<configVars, inputVars, runVars, retryCount, universeEvent, error,
                   createCalls, createFails, createOks, publishCalls, publishFailed, markCreatedFails, markErrorLog, backoffs,
                   delays, counted, failedBatches, fnVars, tokenVars>>

(***************************************************************************)
(* processBatches: Promise.allSettled of batch i resolves.                 *)
(***************************************************************************)
\* Promise.all in place of Promise.allSettled: the first rejection ends the wait
SettledOrRejected(j) ==
    \/ \A r \in Range(batches[j + 1]) : pc[r] \in {"fulfilled", "rejected"}
    \/ \E r \in Range(batches[j + 1]) : pc[r] = "rejected"

Settled(j) == \A r \in Range(batches[j + 1]) : pc[r] \in {"fulfilled", "rejected"}

\* a tally that counts every result as a success
FulfilledOrRejected(j) == Range(batches[j + 1])

Fulfilled(j) == {r \in Range(batches[j + 1]) : pc[r] = "fulfilled"}
Rejected(j) == {r \in Range(batches[j + 1]) : pc[r] = "rejected"}

\* processBatch returns { success, errors }; the counts are added; the
\* inter-batch delay starts, or the loop goes on
BatchDone ==
    /\ runPc = "allSettled"
    /\ Settled(i)
    /\ successCount' = successCount + Cardinality(Fulfilled(i))
    /\ errorCount' = errorCount + Cardinality(Rejected(i))
    /\ counted' = [r \in Recs |->
           IF r \in Fulfilled(i) THEN [counted[r] EXCEPT !.success = @ + 1]
           ELSE IF r \in Rejected(i) THEN [counted[r] EXCEPT !.error = @ + 1]
           ELSE counted[r]]
    /\ IF DelayFollows(i, Len(batches))
       THEN /\ runPc' = "delay"
            /\ delays' = Append(delays, <<i, delayBetweenBatches>>)
            /\ UNCHANGED <<i, pc, retryCount, createCalls>>
       ELSE /\ Continue(i + 1, batches)
            /\ UNCHANGED delays
    /\ UNCHANGED <<configVars, inputVars, queue, batches, batchError, universeEvent, error,
                   worldVars, createFails, createOks, publishCalls,
                   publishFailed, markCreatedFails, markErrorLog, writes, backoffs,
                   failedBatches, fnVars, tokenVars>>

\* the inter-batch timer fires: i++
BatchDelayDone ==
    /\ runPc = "delay"
    /\ Continue(i + 1, batches)
    /\ UNCHANGED <<configVars, inputVars, queue, batches, successCount, errorCount,
                   batchError, universeEvent, error, worldVars, createFails, createOks,
                   publishCalls, publishFailed, markCreatedFails,
                   markErrorLog, writes, backoffs, delays, counted, failedBatches, fnVars, tokenVars>>

(***************************************************************************)
(* The batch-level failure.  processBatch can raise at one statement only: *)
(* the logger.error call of its tally loop, reached for a rejected result, *)
(* which appends to the log file synchronously (Logger.writeToFile).  The  *)
(* catch of processBatches adds batch.length to errorCount and calls       *)
(* markAsError for every record of the batch; no delay follows.  The log   *)
(* calls inside processEvent and inside the services are taken to          *)
(* succeed: the properties of a record's protocol are stated against the   *)
(* failures of the remote calls and of the status writes.                  *)
(***************************************************************************)
BatchThrows ==
    /\ runPc = "allSettled"
    /\ Settled(i)
    /\ Rejected(i) # {}
    /\ batchError' = LogError
    /\ errorCount' = errorCount + Len(batches[i + 1])
    /\ counted' = [r \in Recs |->
           IF r \in Range(batches[i + 1]) THEN [counted[r] EXCEPT !.error = @ + 1]
           ELSE counted[r]]
    /\ failedBatches' = failedBatches \cup {i}
    /\ runPc' = "batchCatch"
    /\ queue' = batches[i + 1]
    /\ markErrorLog' = LogMarkError(markErrorLog, Head(queue'), "processBatches",
                                    BatchFailedMessage(batchError'))
    /\ UNCHANGED <<configVars, inputVars, batches, i, successCount, recVars, worldVars,
                   createCalls, createFails, createOks, publishCalls,
                   publishFailed, markCreatedFails, writes, backoffs, delays, fnVars, tokenVars>>

\* a markAsError of the catch completes; the next one is called, or i++
BatchMarkDone(ok) ==
    /\ runPc = "batchCatch"
    /\ table' = IF ok THEN [table EXCEPT ![Head(queue)] =
                               markAsErrorRow(@, BatchFailedMessage(batchError))]
                      ELSE table
    /\ writes' = IF ok THEN [writes EXCEPT ![Head(queue)] = Append(@, "Error")] ELSE writes
    /\ queue' = Tail(queue)
    /\ IF Len(queue') > 0
       THEN /\ markErrorLog' = LogMarkError(markErrorLog, Head(queue'), "processBatches",
                                            BatchFailedMessage(batchError))
            /\ UNCHANGED <<runPc, i, pc, retryCount, createCalls>>
       ELSE /\ Continue(i + 1, batches)
            /\ UNCHANGED markErrorLog
    /\ UNCHANGED <<configVars, inputVars, batches, successCount, errorCount, batchError,
                   universeEvent, error, createFails, createOks,
                   publishCalls, publishFailed, markCreatedFails,
                   backoffs, delays, counted, failedBatches, fnVars, tokenVars>>

(***************************************************************************)
(* Specifications.  Spec: the run under failures of the calls to the       *)
(* remote API and to Airtable.  SpecBatchFailure: the same, and the        *)
(* batch-level failure.                                                    *)
(***************************************************************************)
States == {"DRAFT", "POSTED"}

Inputs(n) == {f \in [Recs -> BOOLEAN] : \A r \in Recs : r > n => ~f[r]}

Next ==
    \/ \E n \in 0..MaxRecords : \E valid \in Inputs(n), pub \in Inputs(n) : FetchOk(n, valid, pub)
    \/ FetchFail
    \/ \E ok \in BOOLEAN : MarkInvalidDone(ok)
    \/ \E r \in Recs, st \in States : CreateEventOk(r, st)
    \/ \E r \in Recs, m \in CreateErrors : CreateEventFail(r, m)
    \/ \E r \in Recs : PublishEventOk(r)
    \/ \E r \in Recs : PublishEventFail(r)
    \/ \E r \in Recs : MarkAsCreatedOk(r)
    \/ \E r \in Recs : MarkAsCreatedFail(r)
    \/ \E r \in Recs : BackoffDone(r)
    \/ \E r \in Recs, ok \in BOOLEAN : MarkAsErrorDone(r, ok)
    \/ BatchDone
    \/ BatchDelayDone

Spec == Init /\ [][Next]_vars

NextBatchFailure ==
    \/ Next
    \/ BatchThrows
    \/ \E ok \in BOOLEAN : BatchMarkDone(ok)

SpecBatchFailure == Init /\ [][NextBatchFailure]_vars


(***************************************************************************)
(* createBatches applied on its own: this.batchSize is any positive        *)
(* integer up to MaxB and events any sequence of records of length up to   *)
(* MaxLen.                                                                 *)
(***************************************************************************)
SeqsUpTo(S, n) == UNION {[1..k -> S] : k \in 0..n}

Base36Sample == {"0"}

\* Math.random().toString(36).substring(2, 8): up to 6 characters of 0-9a-z
RandomStrings == SeqsUpTo(Base36Sample, MaxRandomLen)

InitCreateBatches ==
    /\ batchSize \in 1..MaxB
    /\ delayBetweenBatches = DefaultDelayBetweenBatches
    /\ maxRetries = DefaultMaxRetries
    /\ events \in SeqsUpTo(Recs, MaxLen)
    /\ runPc = "createBatches"
    /\ NothingDone
    /\ fnArg = events
    /\ fnRes = NotApplied

ApplyCreateBatches ==
    /\ runPc = "createBatches"
    /\ ~fnRes.done
    /\ fnRes' = [done |-> TRUE, value |-> createBatches(fnArg, batchSize)]
    /\ UNCHANGED <<configVars, inputVars, runVars, recVars, worldVars, histVars, fnArg, tokenVars>>

NextCreateBatches == ApplyCreateBatches

SpecCreateBatches == InitCreateBatches /\ [][NextCreateBatches]_vars


(***************************************************************************)
(* validateEvent applied on its own.  The record is a record that passes,  *)
(* or one with no field at all, with up to two of its fields replaced by   *)
(* a value of that field's sample; today is a day before or after the      *)
(* sample dates.                                                           *)
(***************************************************************************)
PrivacySample == {Unset, Some(Text.Empty), Some(Text.PUBLIC), Some(Text.PRIVATE),
                  Some(Text.UNLISTED), Some(Text.public), Some(Text.private),
                  Some(Text.unlisted), Some(Text.PrivateMixed), Some(Text.UnlistedMixed),
                  Some(Text.friends)}

CodesSample == {Unset, Some(Text.CodesAB), Some(Text.CodesGap), Some(Text.CodesTrailing)}

ValidatedFields == {"title", "startDate", "startTime", "endDate", "endTime", "address",
                    "venueName", "cityName", "ratePrice", "capacity", "countryCode",
                    "dateDisplayOption", "privacy", "tiktokPixelCodes", "facebookPixelCodes"}

FieldSample(name) ==
    CASE name \in {"title", "address", "venueName", "cityName"} ->
             {Unset, Some(Text.Empty), Some(Text.Blank), Some(Text.Hall), Some(Text.HallPadded)}
      [] name \in {"startDate", "endDate"} ->
             {Unset, Some(Text.Empty), Some(Text.Blank), Some(Text.Jul31), Some(Text.Aug01),
              Some(Text.Aug09)}
      [] name \in {"startTime", "endTime"} ->
             {Unset, Some(Text.Empty), Some(Text.Blank), Some(Text.T0900), Some(Text.T900),
              Some(Text.T1930), Some(Text.T2359), Some(Text.T2500), Some(Text.T1260), Some(Text.T230PM)}
      [] name \in {"ratePrice", "capacity"} ->
             {Unset, Some(0), Some(-1), Some(1), Some(50)}
      [] name = "countryCode" -> {Unset, Some(Text.CA), Some(Text.CAN)}
      [] name = "dateDisplayOption" -> {Unset, Some(Text.FULL), Some(Text.fullLower)}
      [] name = "privacy" -> PrivacySample
      [] name \in {"tiktokPixelCodes", "facebookPixelCodes"} -> CodesSample

PassingRecord ==
    [title |-> Some(Text.Hall), startDate |-> Some(Text.Jul31), startTime |-> Some(Text.T1930),
     endDate |-> Some(Text.Jul31), endTime |-> Some(Text.T2359), address |-> Some(Text.Hall),
     venueName |-> Some(Text.Hall), cityName |-> Some(Text.Hall), ratePrice |-> Some(50),
     capacity |-> Some(50), countryCode |-> Some(Text.CA), dateDisplayOption |-> Some(Text.FULL),
     privacy |-> Some(Text.PUBLIC), tiktokPixelCodes |-> Unset, facebookPixelCodes |-> Unset]

EmptyRecord == [name \in ValidatedFields |-> Unset]

TodaySample == {DateParse(Text.Jan01), DateParse(Text.Aug05)}

InitValidateEvent ==
    /\ batchSize = DefaultBatchSize
    /\ delayBetweenBatches = DefaultDelayBetweenBatches
    /\ maxRetries = DefaultMaxRetries
    /\ events = <<>>
    /\ runPc = "validateEvent"
    /\ NothingDone
    /\ \E base \in {PassingRecord, EmptyRecord}, f \in ValidatedFields, g \in ValidatedFields :
           \E v \in FieldSample(f), w \in FieldSample(g), today \in TodaySample :
               fnArg = [eventData |-> [[base EXCEPT ![f] = v] EXCEPT ![g] = w], today |-> today]
    /\ fnRes = NotApplied

ApplyValidateEvent ==
    /\ runPc = "validateEvent"
    /\ ~fnRes.done
    /\ fnRes' = [done |-> TRUE, value |-> validateEvent(fnArg.eventData, fnArg.today)]
    /\ UNCHANGED <<configVars, inputVars, runVars, recVars, worldVars, histVars, fnArg, tokenVars>>

NextValidateEvent == ApplyValidateEvent

SpecValidateEvent == InitValidateEvent /\ [][NextValidateEvent]_vars

(***************************************************************************)
(* transformToEventCreateInput applied on its own.  The record is a full   *)
(* record, or one with no cell but its id, with up to two of its fields    *)
(* replaced by a value of that field's sample.                             *)
(***************************************************************************)

TransformedFields == {"publish", "title", "description", "address", "latitude", "longitude",
                      "categoryId", "startDate", "startTime", "endDate", "endTime",
                      "rateName", "ratePrice", "rateCapacity", "rateDescription", "privacy",
                      "virtual", "venueName", "region", "allowWaitlist", "socialButtons",
                      "hiddenDate", "timedEntry", "maxQuantity", "transactionCurrency",
                      "availableCountries", "tiktokPixelCodes", "facebookPixelCodes",
                      "googleAnalytics4Id"}

CellSample(name) ==
    CASE name \in {"publish", "virtual", "allowWaitlist", "socialButtons", "hiddenDate",
                   "timedEntry"} ->
             {Unset, Some(TRUE)}
      [] name \in {"title", "address", "venueName", "region", "transactionCurrency",
                   "googleAnalytics4Id", "categoryId", "rateDescription"} ->
             {Unset, Some(Text.Hall)}
      [] name = "description" -> {Unset, Some(Text.Hall), Some(Text.TwoParagraphs)}
      [] name \in {"latitude", "longitude", "ratePrice", "rateCapacity", "maxQuantity"} ->
             {Unset, Some(0), Some(50)}
      [] name \in {"startDate", "endDate"} -> {Unset, Some(Text.Jul31), Some(Text.Aug01)}
      [] name \in {"startTime", "endTime"} ->
             {Unset, Some(Text.T900), Some(Text.T1930), Some(Text.T2500), Some(Text.T230PM)}
      [] name = "rateName" -> {Unset, Some(Text.Empty), Some(Text.Hall)}
      [] name = "privacy" -> PrivacySample
      [] name \in {"availableCountries", "tiktokPixelCodes", "facebookPixelCodes"} ->
             CodesSample

FullRecord ==
    [airtableId |-> RecordId(1), publish |-> Some(TRUE), title |-> Some(Text.Hall),
     description |-> Some(Text.Hall), address |-> Some(Text.Hall), latitude |-> Some(50),
     longitude |-> Some(50), categoryId |-> Some(Text.Hall), startDate |-> Some(Text.Jul31),
     startTime |-> Some(Text.T1930), endDate |-> Some(Text.Jul31), endTime |-> Some(Text.T2359),
     rateName |-> Some(Text.Hall), ratePrice |-> Some(50), rateCapacity |-> Some(50),
     rateDescription |-> Some(Text.Hall), privacy |-> Some(Text.PUBLIC), virtual |-> Some(TRUE),
     venueName |-> Some(Text.Hall), region |-> Some(Text.Hall), allowWaitlist |-> Some(TRUE),
     socialButtons |-> Some(TRUE), hiddenDate |-> Some(TRUE), timedEntry |-> Some(TRUE),
     maxQuantity |-> Some(50), transactionCurrency |-> Some(Text.Hall),
     availableCountries |-> Some(Text.CodesAB), tiktokPixelCodes |-> Some(Text.CodesAB),
     facebookPixelCodes |-> Some(Text.CodesAB), googleAnalytics4Id |-> Some(Text.Hall)]

BareRecord == [name \in TransformedFields \cup {"airtableId"} |->
                   IF name = "airtableId" THEN RecordId(1) ELSE Unset]

InitTransform ==
    /\ batchSize = DefaultBatchSize
    /\ delayBetweenBatches = DefaultDelayBetweenBatches
    /\ maxRetries = DefaultMaxRetries
    /\ events = <<>>
    /\ runPc = "transformToEventCreateInput"
    /\ NothingDone
    /\ \E base \in {FullRecord, BareRecord}, f \in TransformedFields, g \in TransformedFields :
           \E v \in CellSample(f), w \in CellSample(g), random \in RandomStrings :
               fnArg = [airtableData |-> [[base EXCEPT ![f] = v] EXCEPT ![g] = w],
                        random |-> random]
    /\ fnRes = NotApplied

ApplyTransform ==
    /\ runPc = "transformToEventCreateInput"
    /\ ~fnRes.done
    /\ fnRes' = [done |-> TRUE,
                 value |-> transformToEventCreateInput(fnArg.airtableData, now, fnArg.random)]
    /\ UNCHANGED <<configVars, inputVars, runVars, recVars, worldVars, histVars, fnArg, tokenVars>>

NextTransform == ApplyTransform

SpecTransform == InitTransform /\ [][NextTransform]_vars

(***************************************************************************)
(* The run under any configuration of MAX_RETRIES: the variable is absent  *)
(* or holds an integer from 0 to MaxEnvRetries.  The constructor is        *)
(* applied to process.env, kept in fnArg; BATCH_SIZE is 1, so that the     *)
(* records are processed one after another.                                *)
(***************************************************************************)
EnvRetrySample == {Unset} \cup {Some(n) : n \in 0..MaxEnvRetries}

InitConfigured ==
    /\ \E e \in EnvRetrySample :
           fnArg = [BATCH_SIZE |-> Some(1), DELAY_BETWEEN_BATCHES |-> Unset, MAX_RETRIES |-> e]
    /\ batchSize = ParseIntOr(fnArg.BATCH_SIZE, DefaultBatchSize)
    /\ delayBetweenBatches = ParseIntOr(fnArg.DELAY_BETWEEN_BATCHES, DefaultDelayBetweenBatches)
    /\ maxRetries = ParseIntOr(fnArg.MAX_RETRIES, DefaultMaxRetries)
    /\ events = <<>>
    /\ runPc = "fetch"
    /\ NothingDone
    /\ fnRes = NotApplied

SpecConfigured == InitConfigured /\ [][Next]_vars

(***************************************************************************)
(* The tokens of a run.  createEvent draws the token of a create call in   *)
(* transformToEventCreateInput, after its getAccessToken; publishEvent     *)
(* draws the token of a publish call after its getAccessToken.  The clock  *)
(* Date.now() does not run backwards; it advances by a millisecond, at     *)
(* most MaxTicks times within a second, or by a second.  The timer of      *)
(* this.delay(ms) fires no earlier than ms after the failed call was made, *)
(* which is no earlier than the moment that call's token was drawn.  The   *)
(* failures are those of the remote calls: a failed status write takes the *)
(* same catch and the same delay as a failed create.                       *)
(***************************************************************************)
TokenCreateError == [id |-> "create-short", len |-> 40]

HasToken(op, r, k) == \E t \in issued : t.op = op /\ t.rec = r /\ t.call = k

TokenTime(op, r, k) == (CHOOSE t \in issued : t.op = op /\ t.rec = r /\ t.call = k).at

InitTokens ==
    /\ batchSize = ParseIntOr(Unset, DefaultBatchSize)
    /\ delayBetweenBatches = ParseIntOr(Unset, DefaultDelayBetweenBatches)
    /\ maxRetries = ParseIntOr(<<1>>, DefaultMaxRetries)
    /\ events = <<>>
    /\ runPc = "fetch"
    /\ NothingDone
    /\ fnArg = <<>>
    /\ fnRes = NotApplied

\* the clock advances by d milliseconds
Tick(d) ==
    /\ (now % BackoffUnit) + (d % BackoffUnit) <= MaxTicks
    /\ now + d <= MaxSeconds * BackoffUnit + MaxTicks
    /\ now' = now + d
    /\ UNCHANGED <<configVars, inputVars, runVars, recVars, worldVars, histVars, fnVars,
                   issued, credVars>>

\* createEvent: const input = this.transformToEventCreateInput(eventData)
DrawCreateToken(r, random) ==
    /\ pc[r] = "createEvent"
    /\ ~HasToken(EventCreateOp, r, createCalls[r])
    /\ issued' = issued \cup
           {[op |-> EventCreateOp, rec |-> r, call |-> createCalls[r], at |-> now,
             random |-> random,
             token |-> generateClientMutationId(EventCreateOp, RecordId(r), now, random)]}
    /\ UNCHANGED <<configVars, inputVars, runVars, recVars, worldVars, histVars, fnVars, now,
                   credVars>>

\* publishEvent: clientMutationId: this.generateClientMutationId('event-publish', eventId)
DrawPublishToken(r, random) ==
    /\ pc[r] = "publishEvent"
    /\ ~HasToken(EventPublishOp, r, publishCalls[r])
    /\ issued' = issued \cup
           {[op |-> EventPublishOp, rec |-> r, call |-> publishCalls[r], at |-> now,
             random |-> random,
             token |-> generateClientMutationId(EventPublishOp, EventId(universeEvent[r].id),
                                                now, random)]}
    /\ UNCHANGED <<configVars, inputVars, runVars, recVars, worldVars, histVars, fnVars, now,
                   credVars>>

\* the request of createEvent, sent with its token, resolves or rejects
TokenCreateOk(r, st) == HasToken(EventCreateOp, r, createCalls[r]) /\ CreateEventOk(r, st)
TokenCreateFail(r, m) == HasToken(EventCreateOp, r, createCalls[r]) /\ CreateEventFail(r, m)

\* the request of publishEvent, sent with its token, resolves or rejects
TokenPublishOk(r) == HasToken(EventPublishOp, r, publishCalls[r]) /\ PublishEventOk(r)
TokenPublishFail(r) == HasToken(EventPublishOp, r, publishCalls[r]) /\ PublishEventFail(r)

\* the timer of this.delay(1000 * (retryCount + 1)) fires
TimedBackoffDone(r) ==
    /\ pc[r] = "delay"
    /\ now >= TokenTime(EventCreateOp, r, createCalls[r]) + Last(backoffs[r])
    /\ BackoffDone(r)

NextTokens ==
    \/ \E pub \in Inputs(MaxRecords) : FetchOk(MaxRecords, [r \in Recs |-> TRUE], pub)
    \/ \E d \in {1, BackoffUnit} : Tick(d)
    \/ \E r \in Recs, random \in RandomStrings : DrawCreateToken(r, random)
    \/ \E r \in Recs : TokenCreateOk(r, "DRAFT")
    \/ \E r \in Recs : TokenCreateFail(r, TokenCreateError)
    \/ \E r \in Recs, random \in RandomStrings : DrawPublishToken(r, random)
    \/ \E r \in Recs : TokenPublishOk(r)
    \/ \E r \in Recs : TokenPublishFail(r)
    \/ \E r \in Recs : MarkAsCreatedOk(r)
    \/ \E r \in Recs : TimedBackoffDone(r)
    \/ \E r \in Recs : MarkAsErrorDone(r, TRUE)
    \/ BatchDone

SpecTokens == InitTokens /\ [][NextTokens]_vars

(***************************************************************************)
(* The credential of the run.  createEvent and publishEvent start with     *)
(* await this.getAccessToken() on the one UniverseService of the run.  The *)
(* test of the cache is part of the stretch that makes the call: it runs   *)
(* for every record of a batch before any response is handled, so no other *)
(* action is taken while a test is outstanding.  A token request resolves  *)
(* with a new token that expires some seconds later, or rejects; the      *)
(* rejection leaves getAccessToken and then createEvent or publishEvent.   *)
(* The failures are those of the token request.  The records are valid and *)
(* form one batch; the clock advances by whole seconds.                    *)
(***************************************************************************)
AuthError == [id |-> "token", len |-> 30]

ExpiresInSample == {0, 1}

\* a test of the cache that still takes the token at the moment it expires
CachedTokenValidAtExpiry(token, expiration, t) ==
    token # Null /\ expiration # Null /\ expiration[1] >= t

\* getAccessToken: this.accessToken && this.tokenExpiration > Date.now()
CachedTokenValid(token, expiration, t) ==
    token # Null /\ expiration # Null /\ expiration[1] > t

\* the call of createEvent or publishEvent record r is waiting in
CurrentCall(r) ==
    IF pc[r] = "createEvent" THEN [op |-> "createEvent", call |-> createCalls[r]]
    ELSE IF pc[r] = "publishEvent" THEN [op |-> "publishEvent", call |-> publishCalls[r]]
    ELSE [op |-> "", call |-> 0]

\* the call has not yet run its getAccessToken
TestOutstanding(r) ==
    /\ pc[r] \in {"createEvent", "publishEvent"}
    /\ [op |-> auth[r].op, call |-> auth[r].call] # CurrentCall(r)

AuthIs(r, state) == ~TestOutstanding(r) /\ auth[r].state = state

NoTestOutstanding == \A r \in Recs : ~TestOutstanding(r)

InitCredential ==
    /\ batchSize = ParseIntOr(Unset, DefaultBatchSize)
    /\ delayBetweenBatches = ParseIntOr(Unset, DefaultDelayBetweenBatches)
    /\ maxRetries = ParseIntOr(<<1>>, DefaultMaxRetries)
    /\ events = <<>>
    /\ runPc = "fetch"
    /\ NothingDone
    /\ fnArg = <<>>
    /\ fnRes = NotApplied

\* getAccessToken up to its return or its await of axios.post
GetAccessToken(r) ==
    /\ TestOutstanding(r)
    /\ auth' = [auth EXCEPT ![r] =
           [op |-> CurrentCall(r).op, call |-> CurrentCall(r).call,
            state |-> IF CachedTokenValid(accessToken, tokenExpiration, now)
                      THEN "ready" ELSE "requesting",
            token |-> accessToken, expiration |-> tokenExpiration, at |-> now,
            requested |-> ~CachedTokenValid(accessToken, tokenExpiration, now)]]
    /\ UNCHANGED <<configVars, inputVars, runVars, recVars, worldVars, histVars, fnVars, now,
                   issued, accessToken, tokenExpiration, client, credWriters>>

\* axios.post resolves: the token, its expiry and the client are assigned
TokenRequestOk(r, expiresIn) ==
    /\ NoTestOutstanding
    /\ AuthIs(r, "requesting")
    /\ accessToken' = IF accessToken = Null THEN <<1>> ELSE <<accessToken[1] + 1>>
    /\ tokenExpiration' = <<now + expiresIn * BackoffUnit>>
    /\ client' = accessToken'
    /\ auth' = [auth EXCEPT ![r].state = "ready"]
    /\ credWriters' = credWriters \cup {r}
    /\ UNCHANGED <<configVars, inputVars, runVars, recVars, worldVars, histVars, fnVars, now,
                   issued>>

\* axios.post rejects: getAccessToken logs and rethrows, and so does its caller
TokenRequestFail(r) ==
    /\ NoTestOutstanding
    /\ AuthIs(r, "requesting")
    /\ IF pc[r] = "createEvent" THEN CreateEventFail(r, AuthError) ELSE PublishEventFail(r)

\* the request of createEvent or publishEvent, sent through this.client, resolves
CredCreateOk(r) == NoTestOutstanding /\ AuthIs(r, "ready") /\ CreateEventOk(r, "DRAFT")
CredPublishOk(r) == NoTestOutstanding /\ AuthIs(r, "ready") /\ PublishEventOk(r)

NextCredential ==
    \/ \E pub \in Inputs(MaxRecords) : FetchOk(MaxRecords, [r \in Recs |-> TRUE], pub)
    \/ \E r \in Recs : GetAccessToken(r)
    \/ \E r \in Recs, e \in ExpiresInSample : TokenRequestOk(r, e)
    \/ \E r \in Recs : TokenRequestFail(r)
    \/ \E r \in Recs : CredCreateOk(r)
    \/ \E r \in Recs : CredPublishOk(r)
    \/ \E r \in Recs : NoTestOutstanding /\ MarkAsCreatedOk(r)
    \/ \E r \in Recs : NoTestOutstanding /\ BackoffDone(r)
    \/ \E r \in Recs : NoTestOutstanding /\ MarkAsErrorDone(r, TRUE)
    \/ NoTestOutstanding /\ BatchDone
    \/ NoTestOutstanding /\ Tick(BackoffUnit)

SpecCredential == InitCredential /\ [][NextCredential]_vars

(***************************************************************************)
(* The run under every configuration the constructor can produce: each of  *)
(* BATCH_SIZE, DELAY_BETWEEN_BATCHES and MAX_RETRIES is absent or holds    *)
(* -1, 0 or 1.  The loop of createBatches is taken one iteration at a      *)
(* time; an array cannot grow without end: when it holds MaxBatches        *)
(* batches and the loop goes on, the process runs out of memory and ends.  *)
(* The records are valid and none is to be published; create calls fail or *)
(* succeed and the status writes succeed.  Every pending call and timer    *)
(* completes in the end: whenever a step can be taken, one is.             *)
(***************************************************************************)
EnvAnySample == {Unset, <<-1>>, <<0>>, <<1>>}

InitAnyConfig ==
    /\ \E e \in EnvAnySample : batchSize = ParseIntOr(e, DefaultBatchSize)
    /\ \E e \in EnvAnySample : delayBetweenBatches = ParseIntOr(e, DefaultDelayBetweenBatches)
    /\ \E e \in EnvAnySample : maxRetries = ParseIntOr(e, DefaultMaxRetries)
    /\ events = <<>>
    /\ runPc = "fetch"
    /\ NothingDone
    /\ fnArg = <<>>
    /\ fnRes = NotApplied

\* run: getUnprocessedEvents resolves with n valid records; with none run
\* returns, else processBatches calls createBatches
AnyFetchOk(n) ==
    /\ runPc = "fetch"
    /\ events' = [k \in 1..n |-> k]
    /\ isValid' = [r \in Recs |-> r <= n]
    /\ runPc' = IF n = 0 THEN "done" ELSE "createBatches"
    /\ UNCHANGED <<configVars, publish, queue, batches, i, successCount, errorCount,
                   batchError, recVars, worldVars, histVars, fnVars, tokenVars>>

\* createBatches, one iteration: batches.push(events.slice(i, i + batchSize)); i += batchSize
CreateBatchesStep ==
    /\ runPc = "createBatches"
    /\ i < Len(events)
    /\ Len(batches) < MaxBatches
    /\ batches' = Append(batches, Slice(events, i, i + batchSize))
    /\ i' = i + batchSize
    /\ UNCHANGED <<configVars, inputVars, runPc, queue, successCount, errorCount, batchError,
                   recVars, worldVars, histVars, fnVars, tokenVars>>

\* createBatches: the array cannot take another batch; either the heap is
\* used up and the process ends, or push throws a RangeError at the largest
\* array length, which the catch of run logs
CreateBatchesOutOfMemory ==
    /\ runPc = "createBatches"
    /\ i < Len(events)
    /\ Len(batches) >= MaxBatches
    /\ runPc' \in {"crashed", "aborted"}
    /\ UNCHANGED <<configVars, inputVars, queue, batches, i, successCount, errorCount,
                   batchError, recVars, worldVars, histVars, fnVars, tokenVars>>

\* createBatches returns: the loop of processBatches starts
CreateBatchesReturns ==
    /\ runPc = "createBatches"
    /\ ~(i < Len(events))
    /\ Continue(0, batches)
    /\ UNCHANGED <<configVars, inputVars, queue, batches, successCount, errorCount,
                   batchError, universeEvent, error, worldVars, createFails, createOks,
                   publishCalls, publishFailed, markCreatedFails,
                   markErrorLog, writes, backoffs, delays, counted, failedBatches, fnVars,
                   tokenVars>>

NextAnyConfig ==
    \/ \E n \in 0..MaxRecords : AnyFetchOk(n)
    \/ FetchFail
    \/ CreateBatchesStep
    \/ CreateBatchesOutOfMemory
    \/ CreateBatchesReturns
    \/ \E r \in Recs : CreateEventOk(r, "DRAFT")
    \/ \E r \in Recs : CreateEventFail(r, TokenCreateError)
    \/ \E r \in Recs : MarkAsCreatedOk(r)
    \/ \E r \in Recs : BackoffDone(r)
    \/ \E r \in Recs : MarkAsErrorDone(r, TRUE)
    \/ BatchDone
    \/ BatchDelayDone

SpecAnyConfig == InitAnyConfig /\ [][NextAnyConfig]_vars /\ WF_vars(NextAnyConfig)

(***************************************************************************)
(* Properties.                                                             *)
(***************************************************************************)
\* every create call made for r so far has failed
AllCreatesFailed(r) == createCalls[r] > 0 /\ createFails[r] = createCalls[r]

SameBatch(r, s) == \E j \in 1..Len(batches) : r \in Range(batches[j]) /\ s \in Range(batches[j])

Success == [success |-> 1, error |-> 0]

\* the row markAsCreated writes for the k-th create call of record r
CreatedRow(r, k) ==
    [status |-> "Created",
     universeEventId |-> [rec |-> r, call |-> k],
     universeUrl |-> [base |-> "https://www.universe.com/", slug |-> [rec |-> r, call |-> k]],
     errorMessage |-> NoMessage,
     clientMutationId |-> [op |-> "event-create", rec |-> r, call |-> k]]

(***************************************************************************)
(* C1: a record whose create call fails on every attempt has create        *)
(* called exactly maxRetries + 1 times: while fewer calls have been made   *)
(* it waits for the next one and markAsError has not been called; after    *)
(* the call number maxRetries + 1 processEvent calls markAsError once,     *)
(* with the message of the failure caught by that last call, the promise   *)
(* rejects with it, and no further create call is made.                    *)
(***************************************************************************)
C1_RetryExhaustion ==
    \A r \in Recs : (maxRetries >= 0 /\ AllCreatesFailed(r)) =>
        /\ pc[r] \in {"delay", "markAsError", "rejected"}
        /\ createCalls[r] <= maxRetries + 1
        /\ pc[r] = "delay" =>
               /\ createCalls[r] <= maxRetries
               /\ markErrorLog[r] = <<>>
        /\ pc[r] \in {"markAsError", "rejected"} =>
               /\ createCalls[r] = maxRetries + 1
               /\ error[r] \in CreateErrors
               /\ markErrorLog[r] = << <<"processEvent", error[r]>> >>

C1_Witness ==
    \E r \in Recs : /\ AllCreatesFailed(r)
                    /\ pc[r] = "rejected"
                    /\ maxRetries = 2
                    /\ createCalls[r] = 3

C3_RetryOnlyAfterCreateFailure ==
    \A r \in Recs : markCreatedFails[r] > 0 =>
        /\ pc[r] # "delay"
        /\ createCalls[r] = createFails[r] + 1

WrittenBoth(r) == "Created" \in Range(writes[r]) /\ "Error" \in Range(writes[r])

TerminalRow(row) ==
    \/ row.status = "Created" /\ row.universeEventId # NoId /\ row.universeUrl # NoUrl
    \/ row.status = "Error" /\ row.errorMessage # NoMessage

InFailedBatch(r) == \E j \in failedBatches : r \in Range(batches[j + 1])

C7_CountsAddUp ==
    (runPc = "done" /\ batches # <<>>) =>
        /\ successCount + errorCount = Len(ValidOf(events, isValid))
        /\ \A r \in Range(events) :
               counted[r].success + counted[r].error = (IF isValid[r] THEN 1 ELSE 0)

C7_Witness ==
    /\ runPc = "done"
    /\ failedBatches # {}
    /\ successCount = 1
    /\ errorCount = 1

(***************************************************************************)
(* C8: a record whose markAsCreated failed after a successful create is    *)
(* still counted as one success and not as an error.                       *)
(***************************************************************************)
C8_StatusWriteFailureKeepsCount ==
    \A r \in Recs : (runPc = "done" /\ markCreatedFails[r] > 0) => counted[r] = Success

(***************************************************************************)
(* C9: createBatches returns ceil(L / B) batches, each non-empty and of at *)
(* most B records, whose concatenation is the input in the same order.     *)
(***************************************************************************)
RECURSIVE Flatten(_)
Flatten(ss) == IF ss = <<>> THEN <<>> ELSE Head(ss) \o Flatten(Tail(ss))

CeilDiv(a, b) == (a + b - 1) \div b

C9_Partition ==
    fnRes.done =>
        /\ Len(fnRes.value) = CeilDiv(Len(fnArg), batchSize)
        /\ \A k \in 1..Len(fnRes.value) :
               Len(fnRes.value[k]) >= 1 /\ Len(fnRes.value[k]) <= batchSize
        /\ Flatten(fnRes.value) = fnArg

C9_Witness ==
    /\ fnRes.done
    /\ Len(fnArg) = 4
    /\ batchSize = 3
    /\ fnArg[1] # fnArg[2]
    /\ Len(fnRes.value) = 2

(***************************************************************************)
(* C10: a run with N batches makes exactly N - 1 inter-batch delays of     *)
(* delayBetweenBatches, one after each batch but the last, whatever the    *)
(* outcome of each batch.                                                  *)
(***************************************************************************)
C10_DelayBetweenBatches ==
    (runPc = "done" /\ batches # <<>>) =>
        delays = [k \in 1..(Len(batches) - 1) |-> <<k - 1, delayBetweenBatches>>]


(***************************************************************************)
(* C11: batches run strictly one after another: when create has been       *)
(* called for a record s of a later batch, every record r of every earlier *)
(* batch has reached its terminal outcome (its retries, backoff waits and  *)
(* status writes are over and its promise is settled), and the loop of     *)
(* processBatches has moved past r's batch, the writes of the batch-level  *)
(* catch included.                                                         *)
(***************************************************************************)
C11_BatchesSequential ==
    \A j, k \in 1..Len(batches) : \A r \in Range(batches[j]), s \in Range(batches[k]) :
        (j < k /\ createCalls[s] > 0) =>
            /\ pc[r] \in {"fulfilled", "rejected"}
            /\ createOks[r] + Len(markErrorLog[r]) > 0
            /\ i >= j
            /\ counted[r].success + counted[r].error = 1

C11_Witness ==
    \E j, k \in 1..Len(batches) : \E r \in Range(batches[j]), s \in Range(batches[k]) :
        /\ j < k
        /\ createCalls[s] = 1
        /\ pc[s] = "createEvent"
        /\ backoffs[r] # <<>>
        /\ pc[r] = "rejected"

(***************************************************************************)
(* C12: no create call and no publish call is ever made for a record that  *)
(* failed validation, and when the first create call of the run is made    *)
(* markAsError has been called, and has completed, for every invalid       *)
(* record, with the validation message.                                    *)
(***************************************************************************)
C12_InvalidMarkedBeforeCreate ==
    /\ \A r \in Range(events) : ~isValid[r] =>
           /\ createCalls[r] = 0
           /\ publishCalls[r] = 0
           /\ pc[r] = "idle"
    /\ (\E s \in Recs : createCalls[s] > 0) =>
           /\ runPc # "markInvalid"
           /\ \A r \in Range(events) : ~isValid[r] =>
                  markErrorLog[r] = << <<"run", ValidationError>> >>

C12_Witness ==
    \E r, s \in Range(events) :
        /\ ~isValid[r]
        /\ isValid[s]
        /\ createCalls[s] > 0
        /\ table[r].status = "Error"
        /\ table[s].status = "Created"


(***************************************************************************)
(* C13: any two tokens generateClientMutationId returns during a run are   *)
(* distinct: the tokens of two calls differ as texts, whether the calls    *)
(* are successive create attempts of one record, calls of records          *)
(* processed concurrently within the same millisecond, or a create and a   *)
(* publish call.                                                           *)
(***************************************************************************)
C13_TokensDistinct ==
    \A t, u \in issued : t # u => t.token # u.token

C13_Witness ==
    \E t, u, v \in issued :
        /\ t.op = EventCreateOp /\ u.op = EventCreateOp /\ v.op = EventCreateOp
        /\ t.rec # u.rec /\ t.at = u.at /\ t.random = u.random
        /\ v.rec = t.rec /\ v.call = t.call + 1 /\ v.random = t.random
        /\ \E p \in issued : p.op = EventPublishOp /\ p.at = t.at /\ p.random = t.random


(***************************************************************************)
(* Properties of validateEvent.                                            *)
(***************************************************************************)
Validated == runPc = "validateEvent" /\ fnRes.done

\* exactly a two-digit hour 00-23, a colon and a two-digit minute 00-59
IsHHMM(t) ==
    /\ Len(t) = 5
    /\ IsDigit(t[1]) /\ IsDigit(t[2]) /\ t[3] = ":" /\ IsDigit(t[4]) /\ IsDigit(t[5])
    /\ 10 * DigitValue(t[1]) + DigitValue(t[2]) <= 23
    /\ 10 * DigitValue(t[4]) + DigitValue(t[5]) <= 59

Reported(message) == message \in Range(fnRes.value.errors)

(***************************************************************************)
(* C14: validateEvent reports a time-format error and returns              *)
(* isValid = false for every record whose startTime or endTime is given    *)
(* and is not exactly a two-digit hour 00-23, a colon and a two-digit      *)
(* minute 00-59; "9:00" and "25:00" are both rejected.                     *)
(***************************************************************************)
C14_TimeFormatRejected ==
    Validated =>
        /\ (TruthyText(fnArg.eventData.startTime) /\ ~IsHHMM(fnArg.eventData.startTime[1])) =>
               /\ ~fnRes.value.isValid
               /\ Reported("Start time must be in HH:MM format (e.g., 19:30)")
        /\ (TruthyText(fnArg.eventData.endTime) /\ ~IsHHMM(fnArg.eventData.endTime[1])) =>
               /\ ~fnRes.value.isValid
               /\ Reported("End time must be in HH:MM format (e.g., 22:00)")

(***************************************************************************)
(* C15: for each of the eight required fields, a record in which the field *)
(* is missing, empty or whitespace-only gets an error for that field and   *)
(* isValid = false; a record missing all eight gets the eight errors.      *)
(***************************************************************************)
RequiredFields == {"title", "startDate", "startTime", "endDate", "endTime", "address",
                   "venueName", "cityName"}

RequiredError(name) ==
    CASE name = "title" -> "Title is required"
      [] name = "startDate" -> "Start date is required"
      [] name = "startTime" -> "Start time is required"
      [] name = "endDate" -> "End date is required"
      [] name = "endTime" -> "End time is required"
      [] name = "address" -> "Address is required"
      [] name = "venueName" -> "Venue name is required"
      [] name = "cityName" -> "City name is required"

\* the errors that name the field: the one of its presence and, for a time,
\* the one of its format
ErrorsOf(name) ==
    {RequiredError(name)} \cup
    (CASE name = "startTime" -> {"Start time must be in HH:MM format (e.g., 19:30)"}
       [] name = "endTime" -> {"End time must be in HH:MM format (e.g., 22:00)"}
       [] OTHER -> {})

C15_RequiredFields ==
    Validated =>
        /\ \A name \in RequiredFields :
               BlankAfterTrim(fnArg.eventData[name]) =>
                   /\ ~fnRes.value.isValid
                   /\ \E message \in ErrorsOf(name) : Reported(message)
        /\ (\A name \in RequiredFields : fnArg.eventData[name] = Unset) =>
               \A name \in RequiredFields : Reported(RequiredError(name))

(***************************************************************************)
(* C16: validateEvent returns isValid = false with the capacity error for  *)
(* every record whose capacity is present and less than 1, 0 included.     *)
(***************************************************************************)
C16_CapacityAtLeastOne ==
    Validated =>
        ((fnArg.eventData.capacity # Unset /\ fnArg.eventData.capacity[1] < 1) =>
            /\ ~fnRes.value.isValid
            /\ Reported("Capacity must be at least 1"))


(***************************************************************************)
(* C17: validateEvent accepts a privacy value if and only if its           *)
(* case-folded form is one of public, private, unlisted: every letter-case *)
(* variant of the three words passes and every other non-empty value       *)
(* produces the privacy error.                                             *)
(***************************************************************************)
SameLetter(c, d) == c = d \/ \E k \in 1..26 : {c, d} = {UpperCase[k], LowerCase[k]}

IsCaseVariant(a, b) == Len(a) = Len(b) /\ \A k \in 1..Len(a) : SameLetter(a[k], b[k])

C17_PrivacyCaseInsensitive ==
    Validated =>
        (TruthyText(fnArg.eventData.privacy) =>
            (~Reported("Privacy must be PUBLIC, PRIVATE, or UNLISTED (case insensitive)")
                <=> \E word \in {Text.public, Text.private, Text.unlisted} :
                        IsCaseVariant(fnArg.eventData.privacy[1], word)))

(***************************************************************************)
(* Properties of transformToEventCreateInput.                              *)
(***************************************************************************)
Transformed == runPc = "transformToEventCreateInput" /\ fnRes.done

IsLowerCaseText(s) == \A k \in 1..Len(s) : \A j \in 1..26 : s[k] # UpperCase[j]

(***************************************************************************)
(* C18: transformToEventCreateInput maps a privacy value that is given to  *)
(* its lower-cased form, except that every letter-case variant of          *)
(* "private" maps to "unlisted": PUBLIC gives public, PRIVATE and UNLISTED *)
(* give unlisted; when privacy is absent (or an empty text) the output has *)
(* no privacy key.                                                         *)
(***************************************************************************)
C18_PrivacyMapping ==
    Transformed =>
        IF TruthyText(fnArg.airtableData.privacy)
        THEN /\ "privacy" \in DOMAIN fnRes.value.event
             /\ IF IsCaseVariant(fnArg.airtableData.privacy[1], Text.private)
                THEN fnRes.value.event.privacy = Text.unlisted
                ELSE /\ IsLowerCaseText(fnRes.value.event.privacy)
                     /\ IsCaseVariant(fnArg.airtableData.privacy[1], fnRes.value.event.privacy)
             /\ fnArg.airtableData.privacy[1] = Text.PUBLIC => fnRes.value.event.privacy = Text.public
             /\ fnArg.airtableData.privacy[1] \in {Text.PRIVATE, Text.UNLISTED} =>
                    fnRes.value.event.privacy = Text.unlisted
        ELSE "privacy" \notin DOMAIN fnRes.value.event

C18_Witness ==
    /\ Transformed
    /\ fnArg.airtableData.privacy = Some(Text.PrivateMixed)
    /\ "privacy" \in DOMAIN fnRes.value.event
    /\ fnRes.value.event.privacy = Text.unlisted

(***************************************************************************)
(* C19: the rates list of the create request has exactly one entry         *)
(* whenever the record has both a rate name and a rate price, a rate price *)
(* of 0 included, and is empty otherwise.                                  *)
(***************************************************************************)
C19_OneRateWhenNameAndPrice ==
    Transformed =>
        Len(fnRes.value.event.rates) =
            (IF TruthyText(fnArg.airtableData.rateName) /\ fnArg.airtableData.ratePrice # Unset
             THEN 1 ELSE 0)


(***************************************************************************)
(* C20: for every integer n >= 0 configured as MAX_RETRIES, 0 included, a  *)
(* record whose create always fails is retried exactly n times, n + 1      *)
(* create calls in total, before it is given up; when MAX_RETRIES is not   *)
(* configured n is the default, 3.                                         *)
(***************************************************************************)
ConfiguredRetries ==
    IF fnArg.MAX_RETRIES = Unset THEN DefaultMaxRetries ELSE fnArg.MAX_RETRIES[1]

C20_RetriesAsConfigured ==
    \A r \in Recs :
        (AllCreatesFailed(r) /\ pc[r] \in {"markAsError", "rejected"}) =>
            /\ createCalls[r] = ConfiguredRetries + 1
            /\ Len(backoffs[r]) = ConfiguredRetries


(***************************************************************************)
(* C21: whenever the batch-level failure path of processBatches is taken   *)
(* for a batch, no record of that batch has been created remotely or       *)
(* written Created, every record of the batch is counted as one error and  *)
(* none as a success, and once the catch has gone through the batch        *)
(* markAsError has been called for every record of it with the             *)
(* batch-failure message (the write itself may fail).                      *)
(***************************************************************************)
CatchFinished(j) == ~(runPc = "batchCatch" /\ i = j)

C21_BatchFailureAllOrNothing ==
    \A j \in failedBatches : \A r \in Range(batches[j + 1]) :
        /\ createOks[r] = 0
        /\ \A k \in 1..Len(writes[r]) : writes[r][k] # "Created"
        /\ counted[r] = [success |-> 0, error |-> 1]
        /\ CatchFinished(j) =>
               Last(markErrorLog[r]) = <<"processBatches", BatchFailedMessage(LogError)>>


(***************************************************************************)
(* C22: records processed concurrently in the same batch share no mutable  *)
(* state: the cached credential of the UniverseService (accessToken,       *)
(* tokenExpiration, client) is assigned by the processing of at most one   *)
(* record of a batch.                                                      *)
(***************************************************************************)
C22_NoSharedWrites ==
    \A j \in 1..Len(batches) : Cardinality(credWriters \cap Range(batches[j])) <= 1

C24_PublishOnceAfterCreate ==
    \A r \in Recs :
        /\ publishCalls[r] <= 1
        /\ publishCalls[r] > 0 => (createOks[r] > 0 /\ publish[r])
        /\ pc[r] = "publishEvent" =>
               /\ universeEvent[r].id = [rec |-> r, call |-> createCalls[r]]
               /\ universeEvent[r].state # "POSTED"

(***************************************************************************)
(* C25: getAccessToken sends a token request if and only if no token is    *)
(* cached or the cached token's expiry is not in the future; with an       *)
(* unexpired cached token it returns at once, without a request; a failed  *)
(* token request leaves the cached token, its expiry and the client as     *)
(* they were and the failure reaches the caller of createEvent or of       *)
(* publishEvent.                                                           *)
(***************************************************************************)
ExpiryInFuture(a) == a.expiration # Null /\ a.expiration[1] > a.at

TestedRight ==
    \A r \in Recs : auth[r].state # "none" =>
        /\ auth[r].requested <=> (auth[r].token = Null \/ ~ExpiryInFuture(auth[r]))
        /\ ~auth[r].requested => auth[r].state = "ready"

FailedRequestLeavesCache(r) ==
    (AuthIs(r, "requesting") /\ pc'[r] # pc[r]) =>
        /\ UNCHANGED <<accessToken, tokenExpiration, client>>
        /\ pc[r] = "createEvent" => error'[r] = AuthError /\ pc'[r] \in {"delay", "markAsError"}
        /\ pc[r] = "publishEvent" => publishFailed'[r] /\ pc'[r] = "markAsCreated"

C25_TokenRequestedWhenNeeded ==
    /\ []TestedRight
    /\ [][\A r \in Recs : FailedRequestLeavesCache(r)]_vars

C25_Witness ==
    \E r \in Recs, q \in Recs :
        /\ auth[r].state = "ready" /\ ~auth[r].requested
        /\ auth[q].state = "requesting" /\ error[q] = AuthError
        /\ accessToken # Null

(***************************************************************************)
(* C27: in one run at most one create call succeeds per source record, so  *)
(* no record gives rise to two remote resources, whatever fails among the  *)
(* create calls, the publish calls and the status writes.                  *)
(***************************************************************************)
C27_OneRemoteResourcePerRecord == \A r \in Recs : createOks[r] <= 1

MarkedCreated(r) == \E k \in 1..Len(writes[r]) : writes[r][k] = "Created"

C29_CountsFollowStatusCalls ==
    (runPc = "done" /\ failedBatches = {}) =>
        \A r \in Range(events) : isValid[r] =>
            /\ counted[r].success \in {0, 1} /\ counted[r].error \in {0, 1}
            /\ counted[r].success = 1 <=> MarkedCreated(r)
            /\ counted[r].success = 1 => markErrorLog[r] = <<>>
            /\ counted[r].error = 1 <=> Len(markErrorLog[r]) = 1
            /\ counted[r].error = 1 =>
                   /\ markErrorLog[r][1][1] = "processEvent"
                   /\ createCalls[r] = maxRetries + 1
                   /\ pc[r] = "rejected"

C29_Witness ==
    /\ runPc = "done"
    /\ \E r \in Recs, q \in Recs :
           /\ counted[r].success = 1 /\ MarkedCreated(r)
           /\ counted[q].error = 1 /\ Len(markErrorLog[q]) = 1

(***************************************************************************)
(* C26: combineDateAndTime rejects every time text that is not of the form *)
(* HH:MM, whether or not the validator ran, so the create request never    *)
(* holds a time slot built from a malformed time: a record with such a     *)
(* start or end time gives no time slot.                                   *)
(***************************************************************************)
C26_NoSlotFromMalformedTime ==
    (Transformed /\ Len(fnRes.value.event.timeSlots) > 0) =>
        /\ IsHHMM(fnArg.airtableData.startTime[1])
        /\ IsHHMM(fnArg.airtableData.endTime[1])


(***************************************************************************)
(* C30: when every remote call, status write and timer completes in the    *)
(* end, run finishes in the end under every configuration the constructor  *)
(* can produce from BATCH_SIZE, DELAY_BETWEEN_BATCHES and MAX_RETRIES,     *)
(* zero and negative values included, with every valid record settled as   *)
(* one success or one error.                                               *)
(***************************************************************************)
RunFinished ==
    /\ runPc \in {"done", "aborted"}
    /\ \A r \in Range(events) : isValid[r] => counted[r].success + counted[r].error = 1

C30_RunFinishes == <>RunFinished

=============================================================================
